---- MODULE Spec2Model ----
(***************************************************************************)
(* Model of bcbio/variation/genotype.py: parallel variant calling with     *)
(* several variant callers.                                                *)
(*                                                                         *)
(* Python dictionaries are TLA+ functions whose DOMAIN is the set of keys  *)
(* present; mutable objects (dicts and lists) live on a heap and are       *)
(* referred to by address, so that aliasing, copy.deepcopy and in-place    *)
(* assignment are modelled as the interpreter performs them.               *)
(***************************************************************************)
EXTENDS Integers, Sequences, FiniteSets, TLC

VARIABLES
    heap,        \* the objects (dictionaries and lists) allocated so far
    sample,      \* expansion: address of the input sample record
    items,       \* expansion: the work items returned, as addresses
    input,       \* expansion: value of the input sample before the call
    snap,        \* expansion: value of each work item as returned
    touched,     \* expansion: the records updated in place since
    phase,       \* expansion: "start" or "expanded"
    samples,     \* region calling: the samples handed in, as addresses
    to_process,  \* region calling: work items to split and call
    to_group,    \* region calling: pre-combined samples to group
    extras,      \* region calling: samples passed through
    rphase,      \* region calling: "start" or "done"
    pending,     \* combining: results not yet handed to the combiner
    results,     \* combining: the results in arrival order
    grouped,     \* combining: the grouped records returned
    cphase,      \* combining: "start", "called" or "done"
    fsys,        \* calling: the file system: regular files, links, directories
    log,         \* calling: caller and phasing invocations, writes by dispatch
    disp,        \* calling: the dispatches: record, region, target path
    pcs,         \* calling: where each dispatch stands
    plan,        \* calling: what the split planner returned
    runs,        \* calling: invocations of variantcall_sample so far
    start        \* calling: the heap and file system the dispatches began with

varsExpand == <<sample, items, input, snap, touched, phase>>
varsRegion == <<samples, to_process, to_group, extras, rphase>>
varsCombine == <<pending, results, grouped, cphase>>
varsCall == <<fsys, log, disp, pcs, plan, runs, start>>
vars == <<heap, varsExpand, varsRegion, varsCombine, varsCall>>

IdleExpand ==
    /\ sample = 0 /\ items = <<>> /\ input = <<>> /\ snap = <<>>
    /\ touched = {} /\ phase = "idle"
IdleRegion ==
    /\ samples = <<>> /\ to_process = <<>> /\ to_group = <<>> /\ extras = <<>>
    /\ rphase = "idle"
IdleCombine ==
    /\ pending = {} /\ results = <<>> /\ grouped = <<>> /\ cphase = "idle"
IdleCall ==
    /\ fsys = <<>> /\ log = <<>> /\ disp = <<>> /\ pcs = <<>> /\ plan = <<>>
    /\ runs = 0 /\ start = <<>>

----------------------------------------------------------------------------
(* Bounds of the model *)

\* longest variantcaller list a sample is configured with
MaxCallers == 3
\* most records updated in place after an expansion
MaxTouched == 2
\* most samples handed to parallel_variantcall_region
MaxSamples == 2
\* most post-calling results handed to combine_multiple_callers
MaxResults == 4
\* most invocations of variantcall_sample for one region of one work item
MaxRuns == 2
\* most dispatches of variantcall_sample in flight together
MaxDispatch == 2

----------------------------------------------------------------------------
(* Values *)

\* a Python string
Str(s) == [t |-> "str", v |-> s]
\* a reference to a list object on the heap
ListRef(a) == [t |-> "list", a |-> a]
\* None / False
NoneVal == [t |-> "none"]

\* the path of an alignment file of sample k: the whole file ("full") or the
\* part prepared for a region ("part"); a Python string
BamPath(k, kind) == [t |-> "str", sample |-> k, kind |-> kind]

\* a call file path "<dir>/<name>[-<region>][-raw...]<ext>": directory
\* components, sample name, safe string of the region (<<>> for none), the
\* number of "-raw" suffixes on the base name, whether "-phased" follows,
\* extension
VcfPath(dir, name, region) ==
    [dir |-> dir, name |-> name, region |-> region, raw |-> 0, phased |-> FALSE,
     ext |-> ".vcf.gz"]

\* caller identifiers the samples of the model are configured with
CallerIds == {"gatk", "freebayes", "samtools"}

RECURSIVE SeqsUpTo(_, _)
SeqsUpTo(S, n) ==
    IF n = 0 THEN {<<>>}
    ELSE LET shorter == SeqsUpTo(S, n - 1)
         IN  shorter \cup {Append(q, x) : q \in {r \in shorter : Len(r) = n - 1}, x \in S}

\* dict.get(key, default)
Get(d, key, default) == IF key \in DOMAIN d THEN d[key] ELSE default

\* d[key] = value on a dictionary value
Put(d, key, value) ==
    [f \in DOMAIN d \cup {key} |-> IF f = key THEN value ELSE d[f]]

----------------------------------------------------------------------------
(* The heap *)

\* the addresses an object refers to
RefsOf(obj) ==
    (IF "config" \in DOMAIN obj THEN {obj.config} ELSE {})
    \cup (IF "algorithm" \in DOMAIN obj THEN {obj.algorithm} ELSE {})
    \cup {obj[f].a : f \in {g \in DOMAIN obj \cap {"variantcaller", "orig_variantcaller"} :
                                 obj[g].t = "list"}}

RECURSIVE Reach(_, _)
Reach(h, S) ==
    LET more == S \cup UNION {RefsOf(h[a]) : a \in S}
    IN  IF more = S THEN S ELSE Reach(h, more)

\* an object with every reference it holds renamed by m
Rename(obj, m) ==
    [f \in DOMAIN obj |->
        IF f \in {"config", "algorithm"} THEN m[obj[f]]
        ELSE IF f \in {"variantcaller", "orig_variantcaller"} /\ obj[f].t = "list"
             THEN ListRef(m[obj[f].a])
        ELSE obj[f]]

\* copy.copy(h[a]): a new dictionary holding the same references
ShallowCopy(h, a) == [heap |-> Append(h, h[a]), addr |-> Len(h) + 1]

\* the new address of each object of R, in address order after the heap's end
Relocation(h, R) == [x \in R |-> Len(h) + Cardinality({y \in R : y <= x})]

\* the heap extended by the copies of the objects of R, relocated by m
CopyObjects(h, R, m) ==
    h \o [i \in 1..Cardinality(R) |->
            Rename(h[CHOOSE x \in R : m[x] = Len(h) + i], m)]

CopyReached(h, a, R) ==
    [heap |-> CopyObjects(h, R, Relocation(h, R)), addr |-> Relocation(h, R)[a]]

\* copy.deepcopy(h[a]): every object reachable from a is copied once
DeepCopy_shallow(h, a) == ShallowCopy(h, a)

DeepCopy(h, a) == CopyReached(h, a, Reach(h, {a}))

\* the value of the structure rooted at a, references followed
RECURSIVE Val(_, _)
Val(h, a) ==
    LET obj == h[a]
    IN  [f \in DOMAIN obj |->
            IF f \in {"config", "algorithm"} THEN Val(h, obj[f])
            ELSE IF f \in {"variantcaller", "orig_variantcaller"} /\ obj[f].t = "list"
                 THEN [t |-> "list", items |-> h[obj[f].a].items]
            ELSE obj[f]]

\* data["config"]["algorithm"]
AlgAddr(h, a) == h[h[a].config].algorithm
Alg(h, a) == h[AlgAddr(h, a)]

\* h with the object at address a replaced
Store(h, a, obj) == [h EXCEPT ![a] = obj]

----------------------------------------------------------------------------
(* Per-sample caller expansion *)

get_variantcaller_nodefault(h, a) == Get(Alg(h, a), "variantcaller", NoneVal)

get_variantcaller(h, a) == Get(Alg(h, a), "variantcaller", Str("gatk"))

\* base["config"]["algorithm"]["orig_variantcaller"] =
\*     base["config"]["algorithm"]["variantcaller"]
\* base["config"]["algorithm"]["variantcaller"] = caller
TagCaller(alg, caller) ==
    Put(Put(alg, "orig_variantcaller", alg.variantcaller), "variantcaller", Str(caller))

\* the copy cp tagged and appended to out
TagCopy(cp, caller, out) ==
    [heap |-> Store(cp.heap, AlgAddr(cp.heap, cp.addr),
                    TagCaller(Alg(cp.heap, cp.addr), caller)),
     out |-> Append(out, cp.addr)]

\* one pass of the loop body: copy, tag, append
ExpandOne(h, a, caller, out) == TagCopy(DeepCopy(h, a), caller, out)

ExpandNext(prev, a, caller) == ExpandOne(prev.heap, a, caller, prev.out)

\* for caller in callers: the heap and the list out after each pass
ExpandLoop(h, a, callers) ==
    LET pass[i \in 0..Len(callers)] ==
            IF i = 0 THEN [heap |-> h, out |-> <<>>]
            ELSE ExpandNext(pass[i - 1], a, callers[i])
    IN  pass[Len(callers)]

\* not callers
Falsy(h, c) == c.t = "none" \/ (c.t = "list" /\ Len(h[c.a].items) = 0)

\* the single-identifier case tagged with its provenance as well
handle_multiple_variantcallers_tag(h, a) ==
    IF get_variantcaller(h, a).t = "str"
    THEN [heap |-> Store(h, AlgAddr(h, a),
                         Put(Alg(h, a), "orig_variantcaller", get_variantcaller(h, a))),
          out |-> <<a>>]
    ELSE [heap |-> h, out |-> <<>>]

\* the branches on the variantcaller setting
ExpandBy(h, a, callers) ==
    IF callers.t = "str" THEN [heap |-> h, out |-> <<a>>]
    ELSE IF Falsy(h, callers) THEN [heap |-> h, out |-> <<>>]
    ELSE ExpandLoop(h, a, h[callers.a].items)

handle_multiple_variantcallers(h, a) == ExpandBy(h, a, get_variantcaller(h, a))

----------------------------------------------------------------------------
(* Samples *)

\* the variantcaller settings of the samples of the model
CallerConfigs ==
    {[kind |-> "absent"], [kind |-> "none"]}
    \cup {[kind |-> "str", v |-> s] : s \in CallerIds \cup {""}}
    \cup {[kind |-> "list", items |-> q] : q \in SeqsUpTo(CallerIds, MaxCallers)}

\* h extended by a sample record with the given top-level fields and
\* variantcaller setting; the record is the last object but two (or three)
AddSample(h, fields, cc) ==
    LET n == Len(h)
        alg0 == [phasing |-> Str("")]
        alg == CASE cc.kind = "absent" -> alg0
                 [] cc.kind = "none" -> Put(alg0, "variantcaller", NoneVal)
                 [] cc.kind = "str" -> Put(alg0, "variantcaller", Str(cc.v))
                 [] cc.kind = "list" -> Put(alg0, "variantcaller", ListRef(n + 4))
        objs == <<Put(fields, "config", n + 2), [algorithm |-> n + 3], alg>>
    IN  [heap |-> h \o objs \o (IF cc.kind = "list" THEN <<[items |-> cc.items]>> ELSE <<>>),
         addr |-> n + 1]

----------------------------------------------------------------------------
(* Expansion of one sample, followed by in-place updates of the records *)

InitExpand ==
    \E cc \in CallerConfigs :
        LET s == AddSample(<<>>, [description |-> 1, work_bam |-> BamPath(1, "full")], cc)
        IN  /\ heap = s.heap
            /\ sample = s.addr
            /\ input = Val(s.heap, s.addr)
            /\ items = <<>>
            /\ snap = <<>>
            /\ touched = {}
            /\ phase = "start"
            /\ IdleRegion
            /\ IdleCombine
            /\ IdleCall

Expand ==
    /\ phase = "start"
    /\ LET r == handle_multiple_variantcallers(heap, sample)
       IN  /\ heap' = r.heap
           /\ items' = r.out
           /\ snap' = [i \in 1..Len(r.out) |-> Val(r.heap, r.out[i])]
    /\ phase' = "expanded"
    /\ UNCHANGED <<sample, input, touched, varsRegion, varsCombine, varsCall>>

\* the roots of the records in play: the input sample (0) and the work items
Roots == 0..Len(items)
RootAddr(r) == IF r = 0 THEN sample ELSE items[r]

\* a later stage updates a record in place, at some depth
Mutations == {"vrn_file", "phasing", "orig_append"}

Mutated(h, a, m) ==
    LET al == AlgAddr(h, a)
    IN  CASE m = "vrn_file" -> Store(h, a, Put(h[a], "vrn_file", VcfPath(<<"work">>, 0, <<>>)))
          [] m = "phasing" -> Store(h, al, Put(h[al], "phasing", Str("gatk")))
          [] m = "orig_append" ->
                LET l == h[al].orig_variantcaller.a
                IN  Store(h, l, [items |-> Append(h[l].items, "cortex")])

CanMutate(h, a, m) ==
    m = "orig_append" =>
        /\ "orig_variantcaller" \in DOMAIN Alg(h, a)
        /\ Alg(h, a).orig_variantcaller.t = "list"

Mutate(r, m) ==
    /\ phase = "expanded"
    /\ r \notin touched
    /\ Cardinality(touched) < MaxTouched
    /\ CanMutate(heap, RootAddr(r), m)
    /\ heap' = Mutated(heap, RootAddr(r), m)
    /\ touched' = touched \cup {r}
    /\ UNCHANGED <<sample, items, input, snap, phase, varsRegion, varsCombine, varsCall>>

NextExpand ==
    \/ Expand
    \/ \E r \in Roots, m \in Mutations : Mutate(r, m)

SpecExpand == InitExpand /\ [][NextExpand]_vars

----------------------------------------------------------------------------
(* Region calling: partition of the samples *)

\* x[0]["combine"].keys()[0], for the one-key directives the pipeline writes
FirstKey(d) == CHOOSE k \in DOMAIN d : TRUE

\* "combine" in x[0] and x[0]["combine"].keys()[0] in x (the enclosing list)
combine_ready_wrapper(h, a) == FALSE

\* "combine" in x[0] and x[0]["combine"].keys()[0] in x[0]
combine_ready(h, a) ==
    /\ "combine" \in DOMAIN h[a]
    /\ FirstKey(h[a].combine) \in DOMAIN h[a]

\* the lists after the sample at address x expanded to r
Routed(st, x, r) ==
    [heap |-> r.heap,
     to_process |-> st.to_process \o r.out,
     to_group |-> IF Len(r.out) = 0 /\ combine_ready(r.heap, x)
                  THEN Append(st.to_group, x) ELSE st.to_group,
     extras |-> IF Len(r.out) = 0 /\ ~combine_ready(r.heap, x)
                THEN Append(st.extras, x) ELSE st.extras]

\* one pass of the loop over samples, for the sample at address x
RegionPass(st, x) == Routed(st, x, handle_multiple_variantcallers(st.heap, x))

\* the three lists parallel_variantcall_region builds before it hands
\* to_group to group_combine_parts and to_process to
\* grouped_parallel_split_combine
parallel_variantcall_region(h, ss) ==
    LET pass[i \in 0..Len(ss)] ==
            IF i = 0
            THEN [heap |-> h, to_process |-> <<>>, to_group |-> <<>>, extras |-> <<>>]
            ELSE RegionPass(pass[i - 1], ss[i])
    IN  pass[Len(ss)]

\* the variantcaller settings of the samples handed to region calling
RegionConfigs ==
    {[kind |-> "absent"], [kind |-> "none"], [kind |-> "str", v |-> "gatk"],
     [kind |-> "list", items |-> <<>>], [kind |-> "list", items |-> <<"samtools">>],
     [kind |-> "list", items |-> <<"gatk", "freebayes">>]}

\* the combine directives of the samples: none, one naming work_bam (always
\* on the sample), one naming align_bam with and without that key on the sample
CombineKinds == {"no", "work_bam", "align_bam", "align_bam_missing"}

RegionFields(i, ck) ==
    LET whole == [description |-> i, work_bam |-> BamPath(i, "full")]
        part == [description |-> i, work_bam |-> BamPath(i, "part")]
    IN  CASE ck = "no" -> whole
          [] ck = "work_bam" ->
                Put(part, "combine", [work_bam |-> [out |-> BamPath(i, "full")]])
          [] ck = "align_bam" ->
                Put(Put(part, "align_bam", BamPath(i, "part")),
                    "combine", [align_bam |-> [out |-> BamPath(i, "full")]])
          [] ck = "align_bam_missing" ->
                Put(part, "combine", [align_bam |-> [out |-> BamPath(i, "full")]])

AddedTo(prev, s) == [heap |-> s.heap, addrs |-> Append(prev.addrs, s.addr)]
AddNext(prev, fields, cc) == AddedTo(prev, AddSample(prev.heap, fields, cc))

\* the heap and addresses of samples 1..n built from their descriptions
BuildSamples(kinds) ==
    LET build[i \in 0..Len(kinds)] ==
            IF i = 0 THEN [heap |-> <<>>, addrs |-> <<>>]
            ELSE AddNext(build[i - 1], RegionFields(i, kinds[i].ck), kinds[i].cc)
    IN  build[Len(kinds)]

InitRegion ==
    \E n \in 1..MaxSamples :
        \E kinds \in [1..n -> [cc : RegionConfigs, ck : CombineKinds]] :
            LET b == BuildSamples(kinds)
            IN  /\ heap = b.heap
                /\ samples = b.addrs
                /\ to_process = <<>>
                /\ to_group = <<>>
                /\ extras = <<>>
                /\ rphase = "start"
                /\ IdleExpand
                /\ IdleCombine
                /\ IdleCall

ParallelVariantcallRegion ==
    /\ rphase = "start"
    /\ LET r == parallel_variantcall_region(heap, samples)
       IN  /\ heap' = r.heap
           /\ to_process' = r.to_process
           /\ to_group' = r.to_group
           /\ extras' = r.extras
    /\ rphase' = "done"
    /\ UNCHANGED <<samples, varsExpand, varsCombine, varsCall>>

NextRegion == ParallelVariantcallRegion

SpecRegion == InitRegion /\ [][NextRegion]_vars

----------------------------------------------------------------------------
(* Region split planner *)

\* no sample role drives a batch
batch_drivers_none == {}

batch_drivers == {"tumor"}

\* "region" in data and not data["region"][0] in ["nochrom", "noanalysis"]
HasRealRegion(d) ==
    "region" \in DOMAIN d /\ d.region[1] \notin {"nochrom", "noanalysis"}

\* data["group"][0] if "group" in data else data["description"]
PlanName(d) == IF "group" \in DOMAIN d THEN d.group[1] ELSE d.description

\* os.path.join(data["dirs"]["work"], dir_ext_fn(data)), dir_ext_fn being
\* get_variantcaller
PlanOutDir(h, a) == <<"work", get_variantcaller(h, a).v>>

\* os.path.join(out_dir, "%s%s" % (name, ext))
PlanOutFile(h, a) == VcfPath(PlanOutDir(h, a), PlanName(h[a]), <<>>)

\* os.path.join(out_dir, data["region"][0],
\*              "%s-%s%s" % (name, region.to_safestr(data["region"]), ext))
PlanRegionFile(h, a) ==
    VcfPath(Append(PlanOutDir(h, a), h[a].region[1]), PlanName(h[a]), h[a].region)

\* utils.get_in(data, ("metadata", "phenotype"))
Phenotype(d) ==
    IF "metadata" \in DOMAIN d /\ "phenotype" \in DOMAIN d.metadata
    THEN d.metadata.phenotype ELSE "None"

\* _do_work(data) of _split_by_ready_regions(".vcf.gz", "work_bam",
\* get_variantcaller), exists being the set of paths utils.file_exists accepts
split_by_ready_regions(h, a, exists) ==
    IF HasRealRegion(h[a])
    THEN [out_file |-> <<PlanOutFile(h, a)>>,
          out_parts |-> IF PlanOutFile(h, a) \notin exists
                           \/ Phenotype(h[a]) \in batch_drivers
                        THEN <<[region |-> h[a].region, file |-> PlanRegionFile(h, a)]>>
                        ELSE <<>>]
    ELSE [out_file |-> <<>>, out_parts |-> <<>>]

----------------------------------------------------------------------------
(* Region-level call dispatcher *)

\* the caller registry: identifier -> calling function
get_variantcallers ==
    [c \in {"gatk", "gatk-haplotype", "freebayes", "cortex", "samtools", "varscan",
             "mutect"} |->
        CASE c = "gatk" -> "gatk.unified_genotyper"
          [] c = "gatk-haplotype" -> "gatk.haplotype_caller"
          [] c = "freebayes" -> "freebayes.run_freebayes"
          [] c = "cortex" -> "cortex.run_cortex"
          [] c = "samtools" -> "samtools.run_samtools"
          [] c = "varscan" -> "varscan.run_varscan"
          [] c = "mutect" -> "mutect.mutect_caller"]

\* os.path.lexists(p): a regular file or a link, whatever it points to
lexists(fs, p) == p \in fs.files \/ \E l \in fs.links : l.link = p

\* os.path.exists(p): a regular file or a link to one
exists(fs, p) ==
    p \in fs.files \/ \E l \in fs.links : l.link = p /\ l.target \in fs.files

\* not os.path.exists(out_file) or not os.path.lexists(out_file)
NeedsCall(fs, out_file) == ~exists(fs, out_file) \/ ~lexists(fs, out_file)

\* config["algorithm"].get("variantcaller", "gatk")
CallerOf(h, a) == Get(Alg(h, a), "variantcaller", Str("gatk"))

\* a registry that falls back to a default calling function
Known_default(h, a) == TRUE

\* caller_fns[...] finds an entry (it raises KeyError otherwise)
Known(h, a) == CallerOf(h, a).t = "str" /\ CallerOf(h, a).v \in DOMAIN get_variantcallers

\* align_bams: [data["work_bam"]] for one path, data["work_bam"] for several
AlignBams(d) == IF d.work_bam.t = "str" THEN <<d.work_bam>> ELSE d.work_bam.items

\* a raw path shared by the call files of one directory
RawPath_shared(out_file) == [out_file EXCEPT !.name = 0, !.region = <<>>, !.raw = @ + 1]

\* "%s-raw%s" % utils.splitext_plus(out_file)
RawPath(out_file) == [out_file EXCEPT !.raw = @ + 1]

\* the file read_backed_phasing leaves next to the call file it is given
PhasedPath(call_file) == [call_file EXCEPT !.phased = TRUE]

\* data["config"]["algorithm"].get("phasing", False) == "gatk"
PhasingOn(h, a) == Get(Alg(h, a), "phasing", NoneVal) = Str("gatk")

\* the call file linked to out_file
CallFile(h, a, out_file) ==
    IF PhasingOn(h, a) THEN PhasedPath(RawPath(out_file)) ELSE RawPath(out_file)

\* a directory and the directories above it
Prefixes(dir) == {SubSeq(dir, 1, n) : n \in 1..Len(dir)}

\* utils.safe_makedir(os.path.dirname(out_file)), by dispatch i
W_mkdir(w, i, out_file) ==
    [w EXCEPT !.fs.dirs = @ \cup Prefixes(out_file.dir),
              !.log.mkdirs = @ \cup {[who |-> i, dir |-> d] :
                                        d \in Prefixes(out_file.dir) \ w.fs.dirs}]

\* how many entries of a log dispatch i has made, plus one
NthBy(entries, i) == Cardinality({e \in entries : e.who = i}) + 1

\* caller_fn(align_bams, items, sam_ref, ..., region, call_file): the calling
\* function writes the raw call file and returns its path
W_call(w, i, a, region, out_file) ==
    [w EXCEPT !.fs.files = @ \cup {RawPath(out_file)},
              !.fs.links = {l \in @ : l.link # RawPath(out_file)},
              !.log.calls = @ \cup {[who |-> i, nth |-> NthBy(@, i),
                                     caller |-> CallerOf(w.heap, a).v,
                                     align_bams |-> AlignBams(w.heap[a]),
                                     region |-> region,
                                     call_file |-> RawPath(out_file)]},
              !.log.writes = @ \cup {[who |-> i, path |-> RawPath(out_file)]}]

\* phasing.read_backed_phasing(call_file, align_bams, sam_ref, region, config)
W_phase(w, i, a, out_file) ==
    [w EXCEPT !.fs.files = @ \cup {PhasedPath(RawPath(out_file))},
              !.log.phasings = @ \cup {[who |-> i, nth |-> NthBy(@, i),
                                        call_file |-> RawPath(out_file)]},
              !.log.writes = @ \cup {[who |-> i, path |-> PhasedPath(RawPath(out_file))]}]

\* utils.symlink_plus(call_file, out_file)
W_link(w, i, a, out_file) ==
    [w EXCEPT !.fs.links = {l \in @ : l.link # out_file}
                           \cup {[link |-> out_file,
                                  target |-> CallFile(w.heap, a, out_file)]},
              !.fs.files = @ \ {out_file},
              !.log.writes = @ \cup {[who |-> i, path |-> out_file]}]

\* data["vrn_file"] = out_file
W_set(w, i, a, out_file) ==
    [w EXCEPT !.heap = Store(@, a, Put(@[a], "vrn_file", out_file)),
              !.log.recwrites = @ \cup {[who |-> i, addr |-> a]}]

\* the call file computed and linked: lines 139-156 once the caller is found
W_compute(w, i, a, region, out_file) ==
    IF PhasingOn(w.heap, a)
    THEN W_link(W_phase(W_call(W_mkdir(w, i, out_file), i, a, region, out_file),
                        i, a, out_file), i, a, out_file)
    ELSE W_link(W_call(W_mkdir(w, i, out_file), i, a, region, out_file), i, a, out_file)

\* variantcall_sample(data, region, out_file), as dispatch i on the world w
variantcall_sample(w, i, a, region, out_file) ==
    IF ~NeedsCall(w.fs, out_file)
    THEN [w |-> W_set(w, i, a, out_file), status |-> "done"]
    ELSE IF ~Known(w.heap, a)
    THEN [w |-> W_mkdir(w, i, out_file), status |-> "failed"]
    ELSE [w |-> W_set(W_compute(w, i, a, region, out_file), i, a, out_file),
          status |-> "done"]

World == [heap |-> heap, fs |-> fsys, log |-> log]

EmptyLog ==
    [calls |-> {}, phasings |-> {}, writes |-> {}, mkdirs |-> {}, recwrites |-> {}]

----------------------------------------------------------------------------
(* One work item: planned, then its region dispatched, possibly again *)

\* the region descriptors of the samples: none, a sentinel, a real region
RegionKinds == {"absent", "nochrom", "noanalysis", "chr1"}

RegionOf(rk) ==
    CASE rk = "nochrom" -> <<"nochrom">>
      [] rk = "noanalysis" -> <<"noanalysis">>
      [] rk = "chr1" -> <<"chr1", 0, 100>>

\* the top-level fields of the work item
DispatchFields(rk, ph, grouped_item, several) ==
    [f \in {"description", "work_bam", "sam_ref"}
            \cup (IF rk = "absent" THEN {} ELSE {"region"})
            \cup (IF ph = "absent" THEN {} ELSE {"metadata"})
            \cup (IF grouped_item THEN {"group"} ELSE {})
            \cup (IF several THEN {"group_orig"} ELSE {}) |->
        CASE f = "description" -> 1
          [] f = "work_bam" -> IF several
                               THEN [t |-> "list",
                                     items |-> <<BamPath(1, "part"), BamPath(2, "part")>>]
                               ELSE BamPath(1, "part")
          [] f = "sam_ref" -> "ref.fa"
          [] f = "region" -> RegionOf(rk)
          [] f = "metadata" -> [phenotype |-> ph]
          [] f = "group" -> <<2>>
          [] f = "group_orig" -> <<1, 2>>]

\* the variantcaller settings of a work item: expanded items hold a string
DispatchConfigs ==
    {[kind |-> "absent"]}
    \cup {[kind |-> "str", v |-> c] : c \in {"gatk", "freebayes", "novel"}}

\* the heap with the phasing setting of the record at a set to ph
WithPhasing(h, a, ph) == Store(h, AlgAddr(h, a), Put(Alg(h, a), "phasing", Str(ph)))

\* what is at a call file path to begin with
FileKinds == {"absent", "file", "link", "dangling"}

\* the file system holding the whole-sample file (or not) and the region
\* file as described
StartFs(h, a, whole, rfk) ==
    [files |-> (IF whole THEN {PlanOutFile(h, a)} ELSE {})
               \cup (IF rfk = "file" THEN {PlanRegionFile(h, a)} ELSE {})
               \cup (IF rfk = "link" THEN {CallFile(h, a, PlanRegionFile(h, a))} ELSE {}),
     links |-> IF rfk \in {"link", "dangling"}
               THEN {[link |-> PlanRegionFile(h, a),
                      target |-> CallFile(h, a, PlanRegionFile(h, a))]}
               ELSE {},
     dirs |-> (IF whole THEN Prefixes(PlanOutFile(h, a).dir) ELSE {})
              \cup (IF rfk # "absent" THEN Prefixes(PlanRegionFile(h, a).dir) ELSE {})]

NoFs == [files |-> {}, links |-> {}, dirs |-> {}]

InitDispatch ==
    \E rk \in RegionKinds, ph \in {"absent", "normal", "tumor"},
       grouped_item \in BOOLEAN, several \in BOOLEAN,
       cc \in DispatchConfigs, phasing \in {"", "gatk"},
       whole \in BOOLEAN, rfk \in FileKinds :
        /\ (rk # "chr1") => (rfk = "absent" /\ ~whole)
        /\ heap = WithPhasing(AddSample(<<>>, DispatchFields(rk, ph, grouped_item, several),
                                        cc).heap, 1, phasing)
        /\ fsys = IF rk = "chr1" THEN StartFs(heap, 1, whole, rfk) ELSE NoFs
        /\ log = EmptyLog
        /\ disp = <<>>
        /\ pcs = <<>>
        /\ plan = [planned |-> FALSE, out_file |-> <<>>, out_parts |-> <<>>]
        /\ runs = 0
        /\ start = World
        /\ IdleExpand
        /\ IdleRegion
        /\ IdleCombine

\* the dispatches the engine derives from the planner's parts for record a
Dispatches(a, parts) ==
    [i \in 1..Len(parts) |-> [rec |-> a, region |-> parts[i].region, target |-> parts[i].file]]

Planned(p) ==
    /\ plan' = Put(p, "planned", TRUE)
    /\ disp' = Dispatches(1, p.out_parts)
    /\ pcs' = [i \in 1..Len(p.out_parts) |-> "ready"]

SplitByReadyRegions ==
    /\ ~plan.planned
    /\ Planned(split_by_ready_regions(heap, 1, {p \in fsys.files \cup {l.link : l \in fsys.links} :
                                                   exists(fsys, p)}))
    /\ UNCHANGED <<heap, fsys, log, runs, start, varsExpand, varsRegion, varsCombine>>

Dispatched(i, r) ==
    /\ heap' = r.w.heap
    /\ fsys' = r.w.fs
    /\ log' = r.w.log
    /\ pcs' = [pcs EXCEPT ![i] = r.status]

VariantcallSample(i) ==
    /\ pcs[i] \in {"ready", "done"}
    /\ runs < MaxRuns
    /\ Dispatched(i, variantcall_sample(World, i, disp[i].rec, disp[i].region,
                                          disp[i].target))
    /\ runs' = runs + 1
    /\ UNCHANGED <<disp, plan, start, varsExpand, varsRegion, varsCombine>>

NextDispatch ==
    \/ SplitByReadyRegions
    \/ \E i \in 1..Len(disp) : VariantcallSample(i)

SpecDispatch == InitDispatch /\ [][NextDispatch]_vars

----------------------------------------------------------------------------
(* Region dispatches of several work items, run together step by step *)

\* the regions of the per-region records: stretches of one chromosome
CallRegion(k) == <<"chr1", (k - 1) * 100, k * 100>>

\* the top-level fields of the record of the sample for its k-th region
CallFields(k) ==
    [description |-> 1, work_bam |-> BamPath(1, "part"), sam_ref |-> "ref.fa",
     region |-> CallRegion(k)]

\* the variantcaller settings of the sample to call: one identifier or a
\* list of identifiers
CallConfigs ==
    {[kind |-> "str", v |-> c] : c \in {"gatk", "freebayes"}}
    \cup {[kind |-> "list", items |-> q] :
             q \in SeqsUpTo({"gatk", "freebayes"}, MaxCallers) \ {<<>>}}

\* the work items a setting expands to
ItemCount(cc) == IF cc.kind = "list" THEN Len(cc.items) ELSE 1

PhasedSample(s, ph) == [heap |-> WithPhasing(s.heap, s.addr, ph), addr |-> s.addr]

AddCallSample(prev, k, cc, ph) ==
    AddedTo(prev, PhasedSample(AddSample(prev.heap, CallFields(k), cc), ph))

\* the heap and addresses of the records of the sample for its first n
\* regions, each with the sample's configuration
BuildCallSamples(n, cc, ph) ==
    LET build[k \in 0..n] ==
            IF k = 0 THEN [heap |-> <<>>, addrs |-> <<>>]
            ELSE AddCallSample(build[k - 1], k, cc, ph)
    IN  build[n]

\* the engine's dispatch of the one part the planner returns for the work
\* item at a when no output is there yet
PartDispatch(a, part) == [rec |-> a, region |-> part.region, target |-> part.file]

DispatchOf(h, a) == PartDispatch(a, split_by_ready_regions(h, a, {}).out_parts[1])

\* the file system to begin with: nothing, or the first dispatch's target
\* already linked to its call file, the call file there or gone
CallFs(h, d, fk) ==
    IF fk = "absent" THEN NoFs
    ELSE [files |-> IF fk = "link" THEN {CallFile(h, d.rec, d.target)} ELSE {},
          links |-> {[link |-> d.target, target |-> CallFile(h, d.rec, d.target)]},
          dirs |-> Prefixes(d.target.dir)]

\* the samples expanded by parallel_variantcall_region and each work item
\* handed to the engine
Issued(r, fk) ==
    /\ heap = r.heap
    /\ disp = [i \in 1..Len(r.to_process) |-> DispatchOf(r.heap, r.to_process[i])]
    /\ pcs = [i \in 1..Len(r.to_process) |-> "ready"]
    /\ fsys = CallFs(r.heap, DispatchOf(r.heap, r.to_process[1]), fk)
    /\ log = EmptyLog
    /\ start = [heap |-> r.heap,
                fs |-> CallFs(r.heap, DispatchOf(r.heap, r.to_process[1]), fk),
                log |-> EmptyLog]

IssuedFrom(b, fk) == Issued(parallel_variantcall_region(b.heap, b.addrs), fk)

InitCall ==
    \E n \in 1..MaxDispatch, cc \in CallConfigs, ph \in {"", "gatk"},
       fk \in {"absent", "link", "dangling"} :
        /\ n * ItemCount(cc) <= MaxDispatch
        /\ IssuedFrom(BuildCallSamples(n, cc, ph), fk)
        /\ plan = <<>>
        /\ runs = 0
        /\ IdleExpand
        /\ IdleRegion
        /\ IdleCombine

\* dispatch i has taken a step that left the world as w
Stepped(i, w, pc) ==
    /\ heap' = w.heap
    /\ fsys' = w.fs
    /\ log' = w.log
    /\ pcs' = [pcs EXCEPT ![i] = pc]
    /\ UNCHANGED <<disp, plan, runs, start, varsExpand, varsRegion, varsCombine>>

\* line 138: the test on out_file
CheckOutFile(i) ==
    /\ pcs[i] = "ready"
    /\ Stepped(i, World, IF NeedsCall(fsys, disp[i].target) THEN "mkdir" ELSE "set")

\* lines 139-143: the directory made, the calling function looked up
SafeMakedir(i) ==
    /\ pcs[i] = "mkdir"
    /\ Stepped(i, W_mkdir(World, i, disp[i].target),
               IF Known(heap, disp[i].rec) THEN "call" ELSE "failed")

\* lines 150-153: the calling function run on the raw path
CallerFn(i) ==
    /\ pcs[i] = "call"
    /\ Stepped(i, W_call(World, i, disp[i].rec, disp[i].region, disp[i].target),
               IF PhasingOn(heap, disp[i].rec) THEN "phase" ELSE "link")

\* lines 154-155: read-backed phasing of the call file
ReadBackedPhasing(i) ==
    /\ pcs[i] = "phase"
    /\ Stepped(i, W_phase(World, i, disp[i].rec, disp[i].target), "link")

\* line 156: the call file linked to out_file
SymlinkPlus(i) ==
    /\ pcs[i] = "link"
    /\ Stepped(i, W_link(World, i, disp[i].rec, disp[i].target), "set")

\* line 157: vrn_file set on the record
SetVrnFile(i) ==
    /\ pcs[i] = "set"
    /\ Stepped(i, W_set(World, i, disp[i].rec, disp[i].target), "done")

NextCall ==
    \E i \in 1..Len(disp) :
        \/ CheckOutFile(i)
        \/ SafeMakedir(i)
        \/ CallerFn(i)
        \/ ReadBackedPhasing(i)
        \/ SymlinkPlus(i)
        \/ SetVrnFile(i)

SpecCall == InitCall /\ [][NextCall]_vars

\* the world after dispatch i ran from start to end on w
RunWhole(w, i) == variantcall_sample(w, i, disp[i].rec, disp[i].region, disp[i].target).w

\* the world after the dispatches ran one after the other in the given order
RunInOrder(w, order) ==
    LET pass[k \in 0..Len(order)] ==
            IF k = 0 THEN w ELSE RunWhole(pass[k - 1], order[k])
    IN  pass[Len(order)]

\* the orders in which n dispatches can run one after the other
Orders_of(n) == {p \in [1..n -> 1..n] : \A i, j \in 1..n : (i # j) => p[i] # p[j]}

----------------------------------------------------------------------------
(* Multi-caller combiner *)

\* utils.get_in(x[0], ("combine", "work_bam", "out"), x[0]["work_bam"])
AlignRef(h, a) ==
    IF /\ "combine" \in DOMAIN h[a]
       /\ "work_bam" \in DOMAIN h[a].combine
       /\ "out" \in DOMAIN h[a].combine.work_bam
    THEN h[a].combine.work_bam.out
    ELSE h[a].work_bam

IsIn(q, k) == \E i \in 1..Len(q) : q[i] = k

\* the subsequence of q at the indices of I
Pick(q, I) ==
    [p \in 1..Cardinality(I) |->
        q[CHOOSE i \in I : Cardinality({j \in I : j <= i}) = p]]

\* by_bam[k] keeping only the result that arrived last
GroupedCalls_overwrite(h, xs, k) ==
    Pick(xs, {i \in 1..Len(xs) : AlignRef(h, xs[i]) = k
                                  /\ \A j \in (i + 1)..Len(xs) : AlignRef(h, xs[j]) # k})

\* by_bam[k]: the results with alignment reference k, in arrival order
GroupedCalls(h, xs, k) == Pick(xs, {i \in 1..Len(xs) : AlignRef(h, xs[i]) = k})

ReadyCall(h, a) ==
    [variantcaller |-> get_variantcaller(h, a),
     vrn_file |-> Get(h[a], "vrn_file", NoneVal),
     validate |-> Get(h[a], "validate", NoneVal)]

ReadyCalls(h, g) == [i \in 1..Len(g) |-> ReadyCall(h, g[i])]

\* q.index(v), 0 standing for ValueError
IndexOf(q, v) ==
    IF \E i \in 1..Len(q) : q[i] = v
    THEN CHOOSE i \in 1..Len(q) : q[i] = v /\ \A j \in 1..(i - 1) : q[j] # v
    ELSE 0

\* final["config"]["algorithm"]["orig_variantcaller"].index(x["variantcaller"])
orig_variantcaller_order(h, final, x) ==
    IF Alg(h, final).orig_variantcaller.t = "list" /\ x.variantcaller.t = "str"
    THEN IndexOf(h[Alg(h, final).orig_variantcaller.a].items, x.variantcaller.v)
    ELSE 0

\* sorted(calls, key): stable, so an entry goes after those with a smaller
\* key and those with an equal key that came earlier
SortedByKeys(calls, keys) ==
    [p \in 1..Len(calls) |->
        calls[CHOOSE i \in 1..Len(calls) :
                Cardinality({j \in 1..Len(calls) :
                    keys[j] < keys[i] \/ (keys[j] = keys[i] /\ j <= i)}) = p]]

Sorts(h, g) == Len(g) > 1 /\ "orig_variantcaller" \in DOMAIN Alg(h, g[1])

\* the sort raises: some caller is not in the original list
SortFails(h, g) ==
    Sorts(h, g) /\ \E i \in 1..Len(g) : orig_variantcaller_order(h, g[1], ReadyCall(h, g[i])) = 0

\* the list attached as arrived, whatever the original order
Variants_unsorted(h, g) == ReadyCalls(h, g)

\* the list attached to final["variants"]
Variants(h, g) ==
    IF Sorts(h, g)
    THEN SortedByKeys(ReadyCalls(h, g),
                      [i \in 1..Len(g) |-> orig_variantcaller_order(h, g[1], ReadyCall(h, g[i]))])
    ELSE ReadyCalls(h, g)

\* the heap after the group g is collapsed into its first record
Collapsed(h, g) == Store(h, g[1], Put(h[g[1]], "variants", Variants(h, g)))

\* combine_multiple_callers(data); order is the order in which
\* by_bam.itervalues() yields the groups
combine_multiple_callers(h, xs, order) ==
    LET pass[i \in 0..Len(order)] ==
            IF i = 0 THEN h ELSE Collapsed(pass[i - 1], GroupedCalls(h, xs, order[i]))
    IN  [heap |-> pass[Len(order)],
         out |-> [i \in 1..Len(order) |-> GroupedCalls(h, xs, order[i])[1]],
         failed |-> \E i \in 1..Len(order) : SortFails(h, GroupedCalls(h, xs, order[i]))]

\* the variantcaller settings of the samples whose results are combined
CombineConfigs ==
    <<[kind |-> "absent"], [kind |-> "none"], [kind |-> "str", v |-> "freebayes"],
      [kind |-> "list", items |-> <<"gatk", "freebayes", "samtools">>],
      [kind |-> "list", items |-> <<"samtools", "gatk">>],
      [kind |-> "list", items |-> <<"freebayes", "freebayes">>]>>

\* the kinds of sample: a setting, with a combine directive or without
CombineSampleKinds ==
    [j \in 1..(2 * Len(CombineConfigs)) |->
        [cc |-> CombineConfigs[(j + 1) \div 2],
         ck |-> IF j % 2 = 1 THEN "no" ELSE "work_bam"]]

\* the samples of the given kinds, in that order
KindsOf(ix) == [i \in DOMAIN ix |-> CombineSampleKinds[ix[i]]]

\* results a sample with setting cc contributes
ResultCount(cc) == IF cc.kind = "list" THEN Len(cc.items) ELSE 1

RECURSIVE SumCounts(_, _)
SumCounts(kinds, i) ==
    IF i = 0 THEN 0 ELSE ResultCount(kinds[i].cc) + SumCounts(kinds, i - 1)

InitCombine ==
    \E n \in 1..MaxSamples :
        \E ix \in [1..n -> 1..Len(CombineSampleKinds)] :
            \* samples differ in their number only, and results arrive in
            \* any order: one order of the kinds stands for all
            /\ \A i \in 1..(n - 1) : ix[i] <= ix[i + 1]
            /\ SumCounts(KindsOf(ix), n) <= MaxResults
            /\ heap = BuildSamples(KindsOf(ix)).heap
            /\ samples = BuildSamples(KindsOf(ix)).addrs
            /\ to_process = <<>>
            /\ to_group = <<>>
            /\ extras = <<>>
            /\ rphase = "start"
            /\ pending = {}
            /\ results = <<>>
            /\ grouped = <<>>
            /\ cphase = "start"
            /\ IdleExpand
            /\ IdleCall

\* the "vrn_file" the split/combine engine leaves on each called work item:
\* the planner's out_file
WithCalls(h, called) ==
    [a \in 1..Len(h) |->
        IF IsIn(called, a) THEN Put(h[a], "vrn_file", PlanOutFile(h, a)) ELSE h[a]]

\* parallel_variantcall_region returns extras, the grouped samples and the
\* called work items
Called(r) ==
    /\ heap' = WithCalls(r.heap, r.to_process)
    /\ to_process' = r.to_process
    /\ to_group' = r.to_group
    /\ extras' = r.extras
    /\ pending' = {r.to_process[i] : i \in 1..Len(r.to_process)}
                   \cup {r.to_group[i] : i \in 1..Len(r.to_group)}
                   \cup {r.extras[i] : i \in 1..Len(r.extras)}

CallAll ==
    /\ cphase = "start"
    /\ Called(parallel_variantcall_region(heap, samples))
    /\ rphase' = "done"
    /\ cphase' = "called"
    /\ UNCHANGED <<samples, results, grouped, varsExpand, varsCall>>

\* a result reaches the list handed to the combiner
Arrive(a) ==
    /\ cphase = "called"
    /\ a \in pending
    /\ pending' = pending \ {a}
    /\ results' = Append(results, a)
    /\ UNCHANGED <<heap, grouped, cphase, varsExpand, varsRegion, varsCall>>

AlignRefs == {AlignRef(heap, results[i]) : i \in 1..Len(results)}

Orders(S) == {q \in [1..Cardinality(S) -> S] : \A k \in S : IsIn(q, k)}

Combined(r) ==
    /\ heap' = IF r.failed THEN heap ELSE r.heap
    /\ grouped' = IF r.failed THEN <<>> ELSE r.out
    /\ cphase' = IF r.failed THEN "failed" ELSE "done"

CombineMultipleCallers ==
    /\ cphase = "called"
    /\ pending = {}
    /\ \E order \in Orders(AlignRefs) :
          Combined(combine_multiple_callers(heap, results, order))
    /\ UNCHANGED <<pending, results, varsExpand, varsRegion, varsCall>>

NextCombine ==
    \/ CallAll
    \/ \E a \in pending : Arrive(a)
    \/ CombineMultipleCallers

SpecCombine == InitCombine /\ [][NextCombine]_vars

----------------------------------------------------------------------------
(* Claims about the expansion and the partition *)

\* the variantcaller setting the sample came with
InAlg == input.config.algorithm
InIsList == "variantcaller" \in DOMAIN InAlg /\ InAlg.variantcaller.t = "list"
InIsStr == "variantcaller" \in DOMAIN InAlg /\ InAlg.variantcaller.t = "str"
InIsNone == "variantcaller" \in DOMAIN InAlg /\ InAlg.variantcaller.t = "none"
InAbsent == "variantcaller" \notin DOMAIN InAlg

\* the record the i-th work item of a multi-caller sample has to be
ExpectedItem(i) ==
    [input EXCEPT !.config.algorithm =
        Put(Put(@, "orig_variantcaller", InAlg.variantcaller),
            "variantcaller", Str(InAlg.variantcaller.items[i]))]

\* the value a record had before anything updated it
Pristine(r) == IF r = 0 THEN input ELSE snap[r]

C1Case == phase = "expanded" /\ InIsList /\ Len(InAlg.variantcaller.items) > 1

\* C1: a sample configured with a list of N > 1 callers expands to exactly N
\* work items in request order, the i-th with variantcaller the i-th
\* identifier and orig_variantcaller the full list; the items are deep
\* copies: no two records (items or input) share an object, and updating a
\* nested field of one leaves every other record as it was.
ThmC1 ==
    C1Case =>
        /\ Len(items) = Len(InAlg.variantcaller.items)
        /\ \A i \in 1..Len(items) : snap[i] = ExpectedItem(i)
        /\ \A r, q \in Roots :
              r # q => Reach(heap, {RootAddr(r)}) \cap Reach(heap, {RootAddr(q)}) = {}
        /\ \A r \in Roots \ touched : Val(heap, RootAddr(r)) = Pristine(r)

\* a three-caller sample, one of whose work items has had its list of
\* original callers appended to while the others are untouched
WitC1 ==
    /\ C1Case
    /\ Len(items) = 3
    /\ touched = {2}
    /\ Len(Val(heap, items[2]).config.algorithm.orig_variantcaller.items) = 4

C7Empty == InIsNone \/ (InIsList /\ Len(InAlg.variantcaller.items) = 0)

\* C7 as stated: a sample whose variantcaller setting is empty or absent
\* expands to no work items.
CexC7 ==
    (phase = "expanded" /\ (C7Empty \/ InAbsent)) => items = <<>>

\* C7 amended: a sample whose variantcaller setting is present and is None,
\* False or an empty list expands to no work items; a sample with no
\* variantcaller setting takes the default "gatk" and comes back as the one,
\* unchanged work item.
ThmC7 ==
    phase = "expanded" =>
        /\ C7Empty => items = <<>>
        /\ InAbsent => (items = <<sample>> /\ snap[1] = input)

WitC7 == phase = "expanded" /\ C7Empty /\ items = <<>>

C8Case == phase = "expanded" /\ InIsStr /\ InAlg.variantcaller.v \in CallerIds

\* C8: a sample configured with a single caller identifier expands to
\* exactly one work item, which is the input record itself, unchanged and
\* without an orig_variantcaller field; no object is allocated.
ThmC8 ==
    C8Case =>
        /\ items = <<sample>>
        /\ snap[1] = input
        /\ "orig_variantcaller" \notin DOMAIN snap[1].config.algorithm
        /\ Len(heap) = 3

WitC8 == C8Case /\ Len(items) = 1 /\ touched = {}

\* the indices of the results that share the alignment reference of record f
MembersOf(f) ==
    {i \in 1..Len(results) : AlignRef(heap, results[i]) = AlignRef(heap, f)}

\* the summary entry a result contributes
EntryOf(a) ==
    [variantcaller |-> IF "variantcaller" \in DOMAIN Alg(heap, a)
                       THEN Alg(heap, a).variantcaller ELSE Str("gatk"),
     vrn_file |-> IF "vrn_file" \in DOMAIN heap[a] THEN heap[a].vrn_file ELSE NoneVal,
     validate |-> IF "validate" \in DOMAIN heap[a] THEN heap[a].validate ELSE NoneVal]

\* the original caller list a result carries (<<>> when it carries none)
OrigOf(a) ==
    IF "orig_variantcaller" \in DOMAIN Alg(heap, a)
    THEN heap[Alg(heap, a).orig_variantcaller.a].items ELSE <<>>

\* the first position of caller identifier c in the list q (0 when missing)
PositionIn(q, c) ==
    IF \E i \in 1..Len(q) : q[i] = c
    THEN CHOOSE i \in 1..Len(q) : q[i] = c /\ \A j \in 1..Len(q) : q[j] = c => i <= j
    ELSE 0

\* more than one result for the alignment reference of f, all carrying the
\* same original caller list and a caller of that list
C2Case(f) ==
    /\ Cardinality(MembersOf(f)) > 1
    /\ \A i \in MembersOf(f) :
          /\ OrigOf(results[i]) # <<>>
          /\ OrigOf(results[i]) = OrigOf(f)
          /\ PositionIn(OrigOf(f), EntryOf(results[i]).variantcaller.v) > 0

NoRepeats(q) == \A i, j \in 1..Len(q) : q[i] = q[j] => i = j

CallersOf(vs) == [p \in 1..Len(vs) |-> vs[p].variantcaller.v]

\* C2: results that share an alignment reference and carry the same
\* orig_variantcaller list come out as one record whose variants are ordered
\* by the position of each entry's caller in orig_variantcaller, whatever
\* the order in which the results arrived; when every caller of a list
\* without repeats has reported, variants lists the callers exactly as
\* orig_variantcaller does.
ThmC2 ==
    cphase = "done" =>
        \A r \in 1..Len(results) :
            C2Case(results[r]) =>
                /\ Cardinality({p \in 1..Len(grouped) :
                        AlignRef(heap, grouped[p]) = AlignRef(heap, results[r])}) = 1
                /\ \A p \in 1..Len(grouped) :
                      AlignRef(heap, grouped[p]) = AlignRef(heap, results[r]) =>
                        /\ Len(heap[grouped[p]].variants) = Cardinality(MembersOf(results[r]))
                        /\ \A x, y \in 1..Len(heap[grouped[p]].variants) :
                              x < y =>
                                PositionIn(OrigOf(results[r]),
                                           heap[grouped[p]].variants[x].variantcaller.v)
                                <= PositionIn(OrigOf(results[r]),
                                              heap[grouped[p]].variants[y].variantcaller.v)
                        /\ (NoRepeats(OrigOf(results[r]))
                             /\ Cardinality(MembersOf(results[r])) = Len(OrigOf(results[r])))
                            => CallersOf(heap[grouped[p]].variants) = OrigOf(results[r])

\* three results of one alignment file arrive as samtools, freebayes, gatk
\* and are listed as requested: gatk, freebayes, samtools
WitC2 ==
    /\ cphase = "done"
    /\ \E a, b, c \in 1..Len(results) :
          /\ a < b /\ b < c
          /\ MembersOf(results[a]) = {a, b, c}
          /\ EntryOf(results[a]).variantcaller = Str("samtools")
          /\ EntryOf(results[b]).variantcaller = Str("freebayes")
          /\ EntryOf(results[c]).variantcaller = Str("gatk")
          /\ \E p \in 1..Len(grouped) :
                /\ grouped[p] = results[a]
                /\ CallersOf(heap[grouped[p]].variants) = <<"gatk", "freebayes", "samtools">>

\* the number of entries of the list vs equal to e
CountIn(vs, e) == Cardinality({x \in 1..Len(vs) : vs[x] = e})

\* C3: the combiner returns exactly one grouped record per distinct
\* alignment reference of its input (combine.work_bam.out when present,
\* otherwise work_bam); the variants of a grouped record hold one entry for
\* each input result with its alignment reference and nothing else, so no
\* result is duplicated or dropped.
ThmC3 ==
    /\ cphase # "failed"
    /\ cphase = "done" =>
        /\ Len(grouped) = Cardinality(AlignRefs)
        /\ \A k \in AlignRefs :
              Cardinality({p \in 1..Len(grouped) : AlignRef(heap, grouped[p]) = k}) = 1
        /\ \A p \in 1..Len(grouped) :
              /\ IsIn(results, grouped[p])
              /\ Len(heap[grouped[p]].variants) = Cardinality(MembersOf(grouped[p]))
              /\ \A i \in 1..Len(results) :
                    CountIn(heap[grouped[p]].variants, EntryOf(results[i]))
                    = Cardinality({j \in MembersOf(grouped[p]) :
                                      EntryOf(results[j]) = EntryOf(results[i])})

\* results of two alignment files arrive interleaved and come out as two
\* records, one with two entries
WitC3 ==
    /\ cphase = "done"
    /\ Len(results) = 3
    /\ MembersOf(results[1]) = {1, 3}
    /\ MembersOf(results[2]) = {2}
    /\ Len(grouped) = 2
    /\ "combine" \in DOMAIN heap[results[1]]
    /\ "combine" \notin DOMAIN heap[results[2]]

\* dispatch i runs variantcall_sample in this step
Invokes(i) == i \in 1..Len(pcs) /\ i \in 1..Len(disp) /\ runs' = runs + 1

\* the step leaves every file, link and directory as it was and invokes
\* neither a calling function nor the phasing step
NoRecomputation ==
    /\ fsys' = fsys
    /\ log'.calls = log.calls
    /\ log'.phasings = log.phasings

\* C4 as stated: when target_path is there at the invocation, as a regular
\* file or as a link (its referent missing or not), the dispatcher calls
\* nothing, creates and replaces nothing, and sets vrn_file to target_path.
CexC4 ==
    [][\A i \in 1..Len(disp) :
          (Invokes(i) /\ lexists(fsys, disp[i].target)) =>
              /\ NoRecomputation
              /\ pcs'[i] = "done"
              /\ heap'[disp[i].rec].vrn_file = disp[i].target]_vars

\* the expected whole-sample path of the work item at address 1
C5OutFile ==
    [dir |-> <<"work", IF "variantcaller" \in DOMAIN Alg(heap, 1)
                       THEN Alg(heap, 1).variantcaller.v ELSE "gatk">>,
     name |-> IF "group" \in DOMAIN heap[1] THEN heap[1].group[1] ELSE heap[1].description,
     region |-> <<>>, raw |-> 0, phased |-> FALSE, ext |-> ".vcf.gz"]

\* the expected path of the region's call file
C5RegionFile ==
    [C5OutFile EXCEPT !.dir = Append(@, heap[1].region[1]), !.region = heap[1].region]

\* a real region whose whole-sample output is there when the planner runs
C5Case ==
    /\ plan.planned
    /\ runs = 0
    /\ "region" \in DOMAIN heap[1]
    /\ heap[1].region[1] \notin {"nochrom", "noanalysis"}
    /\ exists(fsys, C5OutFile)

C5Tumor == "metadata" \in DOMAIN heap[1] /\ heap[1].metadata.phenotype = "tumor"

\* C5: for a work item with a real region whose final output path exists,
\* the planner returns (output_path, []) unless the sample's phenotype is
\* "tumor", and then (output_path, [(region, region_output_path)]).
ThmC5 ==
    C5Case =>
        /\ plan.out_file = <<C5OutFile>>
        /\ ~C5Tumor => plan.out_parts = <<>>
        /\ C5Tumor => plan.out_parts = <<[region |-> heap[1].region, file |-> C5RegionFile]>>

\* a tumor sample whose output exists and is planned for its region again
WitC5 == C5Case /\ C5Tumor /\ Len(plan.out_parts) = 1 /\ Len(disp) = 1

\* the caller configured for dispatch i has no entry in the registry
C6Unknown(i) ==
    /\ "variantcaller" \in DOMAIN Alg(heap, disp[i].rec)
    /\ Alg(heap, disp[i].rec).variantcaller.v \notin
          {"gatk", "gatk-haplotype", "freebayes", "cortex", "samtools", "varscan", "mutect"}

C6Case(i) == Invokes(i) /\ C6Unknown(i) /\ ~exists(fsys, disp[i].target)

\* C6 as stated: with an unregistered caller and no target, the dispatcher
\* fails before any external effect: nothing is called, no file, link or
\* directory is created, and vrn_file is not set.
CexC6 ==
    [][\A i \in 1..Len(disp) :
          C6Case(i) => (pcs'[i] = "failed" /\ NoRecomputation /\ heap' = heap)]_vars

\* C6 amended: with an unregistered caller and no target, the dispatcher
\* fails before any calling function or phasing step runs; no file or link
\* is created or replaced and vrn_file is not set; by then it has made sure
\* that the directory of target_path exists, creating it when it was missing.
ThmC6 ==
    [][\A i \in 1..Len(disp) :
          C6Case(i) =>
              /\ pcs'[i] = "failed"
              /\ log'.calls = log.calls
              /\ log'.phasings = log.phasings
              /\ fsys'.files = fsys.files
              /\ fsys'.links = fsys.links
              /\ fsys'.dirs = fsys.dirs \cup Prefixes(disp[i].target.dir)
              /\ heap' = heap]_vars

\* a dispatch failed on its caller, leaving only the target's directory
WitC6 ==
    /\ Len(disp) = 1
    /\ pcs[1] = "failed"
    /\ C6Unknown(1)
    /\ log.calls = {}
    /\ fsys.files = {}
    /\ disp[1].target.dir \in fsys.dirs
    /\ "vrn_file" \notin DOMAIN heap[disp[1].rec]

\* a sample whose combine directive names a key present on the sample
C9PreCombined(a) ==
    /\ "combine" \in DOMAIN heap[a]
    /\ \A k \in DOMAIN heap[a].combine : k \in DOMAIN heap[a]

\* a sample whose variantcaller setting is None, False or an empty list
C9NoCaller(a) ==
    LET al == Alg(heap, a)
    IN  /\ "variantcaller" \in DOMAIN al
        /\ \/ al.variantcaller.t = "none"
           \/ al.variantcaller.t = "list" /\ heap[al.variantcaller.a].items = <<>>

Occurrences(q, a) == Cardinality({i \in 1..Len(q) : q[i] = a})

\* work items are the sample itself or copies of it: same description
C9InProcess(a) ==
    \E i \in 1..Len(to_process) : heap[to_process[i]].description = heap[a].description

\* C9 as stated: every pre-combined sample goes to to_group and never to
\* to_process, whatever its variantcaller setting.
CexC9 ==
    rphase = "done" =>
        \A i \in 1..Len(samples) :
            C9PreCombined(samples[i]) =>
                Occurrences(to_group, samples[i]) = 1 /\ ~C9InProcess(samples[i])

\* C9 amended: every pre-combined sample whose variantcaller setting is
\* None, False or an empty list goes to to_group (once), and is neither
\* added to to_process nor passed through in extras.
ThmC9 ==
    rphase = "done" =>
        \A i \in 1..Len(samples) :
            (C9PreCombined(samples[i]) /\ C9NoCaller(samples[i])) =>
                /\ Occurrences(to_group, samples[i]) = 1
                /\ ~C9InProcess(samples[i])
                /\ Occurrences(extras, samples[i]) = 0

\* two samples, one pre-combined without a caller and grouped, the other
\* expanded into work items
WitC9 ==
    /\ rphase = "done"
    /\ Len(samples) = 2
    /\ C9PreCombined(samples[2]) /\ C9NoCaller(samples[2])
    /\ to_group = <<samples[2]>>
    /\ Len(to_process) = 2

\* the dispatches have pairwise distinct target paths
C10Distinct ==
    \A i, j \in 1..Len(disp) : (i # j) => disp[i].target # disp[j].target

\* target_path of dispatch i and its raw output path
C10Own(i) ==
    {disp[i].target,
     [disp[i].target EXCEPT !.raw = 1]}

\* the files of dispatch i: with phasing on, the phased file as well
C10Files(i) ==
    C10Own(i)
    \cup (IF Alg(heap, disp[i].rec).phasing = Str("gatk")
          THEN {[disp[i].target EXCEPT !.raw = 1, !.phased = TRUE]} ELSE {})

\* the files and links present now and not at the start, or linked elsewhere
C10Changed ==
    (fsys.files \ start.fs.files) \cup {l.link : l \in fsys.links \ start.fs.links}

\* only the records of the dispatches differ from the start, each written
\* by its own dispatch, and no two dispatches have the same record
C10Records ==
    /\ \A a \in 1..Len(heap) :
          (heap[a] # start.heap[a]) => \E i \in 1..Len(disp) : disp[i].rec = a
    /\ \A rw \in log.recwrites : rw.addr = disp[rw.who].rec
    /\ \A x, y \in log.recwrites : (x.addr = y.addr) => (x.who = y.who)

\* no path is written by two dispatches
C10NoSharing == \A x, y \in log.writes : (x.path = y.path) => (x.who = y.who)

\* once every dispatch is done, each one's vrn_file and target link are
\* those of the dispatches run one after the other, in whatever order
C10Sequential ==
    (\A i \in 1..Len(disp) : pcs[i] = "done") =>
        \A order \in Orders_of(Len(disp)) :
            \A i \in 1..Len(disp) :
                /\ heap[disp[i].rec].vrn_file
                      = RunInOrder(start, order).heap[disp[i].rec].vrn_file
                /\ {l \in fsys.links : l.link = disp[i].target}
                      = {l \in RunInOrder(start, order).fs.links : l.link = disp[i].target}

====
